---- MODULE Spec2Model ----
(***************************************************************************)
(* Model of the HEIC -> JPG batch converter (src/main.py): the converter   *)
(* object, file discovery, single-file conversion, the convert_folder loop *)
(* and the command-line entry point, over a small explicit filesystem.     *)
(*                                                                         *)
(* A file name is a sequence of one-character strings, a path a sequence   *)
(* of names.  The filesystem maps each existing path to a node.            *)
(***************************************************************************)
EXTENDS Integers, Sequences, FiniteSets, TLC

VARIABLES
    fs,           \* the filesystem: existing path -> node
    fs0,          \* the filesystem before the first call
    entry,        \* "none", "cli" (main) or "lib" (a library caller)
    pc,           \* "start", "ready", "loop", "returned", "exited"
    constructed,  \* a converter object exists
    quality,      \* self.quality
    verbose,      \* self.verbose
    args,         \* the parsed command line
    input_path,   \* convert_folder: input_path
    output_path,  \* convert_folder: output_path (NoPath for None)
    heic_files,   \* convert_folder: the discovered list
    scanError,    \* discovery was cut short by a traversal error
    idx,          \* convert_folder: position of the loop in heic_files
    stats,        \* convert_folder: the stats record
    outcomes,     \* convert_folder: per-file outcomes of the files processed
    result,       \* what the last library call returned or raised
    exitCode,     \* the process exit code, NotExited while running
    last,         \* what the last run of convert_single_file did
    calls,        \* library calls started on this converter
    summaryLogged \* the current convert_folder call has logged its summary

vars == <<fs, fs0, entry, pc, constructed, quality, verbose, args,
          input_path, output_path, heic_files, scanError, idx, stats, outcomes,
          result, exitCode, last, calls, summaryLogged>>

\* ------------------------------------------------------------------ bounds
\* most files present in the initial filesystem
MaxFiles == 2
\* most library calls made on one converter
MaxCalls == 2
\* most files present initially when a library caller drives the converter
MaxLibFiles == 1

\* ------------------------------------------------------- names and paths
UpperChars == <<"A","B","C","D","E","F","G","H","I","J","K","L","M",
                "N","O","P","Q","R","S","T","U","V","W","X","Y","Z">>
LowerChars == <<"a","b","c","d","e","f","g","h","i","j","k","l","m",
                "n","o","p","q","r","s","t","u","v","w","x","y","z">>

\* str.lower on one character
LowerChar(c) ==
    IF \E i \in 1..26 : UpperChars[i] = c
    THEN LowerChars[CHOOSE i \in 1..26 : UpperChars[i] = c]
    ELSE c

\* str.lower on a name
Lower(name) == [i \in 1..Len(name) |-> LowerChar(name[i])]

\* 1-based position of the last "." of a name, 0 when there is none
LastDot(name) ==
    LET D == {i \in 1..Len(name) : name[i] = "."}
    IN IF D = {} THEN 0 ELSE CHOOSE i \in D : \A j \in D : j <= i

\* pathlib PurePath.suffix / PurePath.stem of a file name
suffix(name) ==
    LET i == LastDot(name)
    IN IF 1 < i /\ i < Len(name) THEN SubSeq(name, i, Len(name)) ELSE <<>>

stem(name) ==
    LET i == LastDot(name)
    IN IF 1 < i /\ i < Len(name) THEN SubSeq(name, 1, i - 1) ELSE name

\* PurePath.name / PurePath.parent
NameOf(p) == p[Len(p)]
Parent(p) == SubSeq(p, 1, Len(p) - 1)

\* p is located under folder (at any depth, folder itself excluded)
IsUnder(p, folder) ==
    /\ Len(p) > Len(folder)
    /\ SubSeq(p, 1, Len(folder)) = folder

\* PurePath.relative_to: the part of p below folder
relative_to(p, folder) == SubSeq(p, Len(folder) + 1, Len(p))

\* The value None of an Optional[Path] / Optional[str] argument
NoPath == <<>>

\* ------------------------------------------- values and save arguments
\* a Python value of the info mapping or of save_kwargs: its type, a number
\* (the integer, or the length of the bytes), a string (the text, or where an
\* EXIF payload came from) and the tags of an EXIF payload
Value(t, num, str, tagset) == [type |-> t, n |-> num, s |-> str, tags |-> tagset]
NoValue    == Value("none", 0, "", {})
IntV(num)  == Value("int", num, "", {})
StrV(str)  == Value("str", 0, str, {})
BoolV(b)   == Value("bool", IF b THEN 1 ELSE 0, "", {})
BytesV(len, origin) == Value("bytes", len, origin, {})
TupleV(num) == Value("tuple", num, "", {})

\* isinstance(value, (str, bytes, int, float)); a bool is an int
IsScalar(v) == v.type \in {"str", "bytes", "int", "float", "bool"}

\* the truth value of exif_data: None and empty bytes are false
Truthy(v) == v.type = "bytes" /\ v.n > 0

EmptyMap == [k \in {} |-> NoValue]

\* keys of an EXIF view: an integer tag, or a key that is no integer
IntKey(num) == [isint |-> TRUE, n |-> num]
NonIntKey   == [isint |-> FALSE, n |-> 0]

\* the filter of the structured view: an int key in range(0, 65536)
ValidExifTag(k) == k.isint /\ 0 <= k.n /\ k.n < 65536

\* piexif.dump raises on a key that is not a tag it knows (here it knows
\* ExposureTime 33434 and DateTimeOriginal 36867)
DumpRaises(view) == \E k \in view : ~k.isint \/ k.n \notin {33434, 36867}

\* the bytes piexif.dump returns for a view
DumpPayload(view, origin) ==
    Value("bytes", 8 + Cardinality(view), origin, {k.n : k \in view})

\* ------------------------------------------------------------ filesystem
DirNode == [kind |-> "dir", data |-> "", src |-> NoPath, q |-> 0, kw |-> EmptyMap]
FileNode(d) == [kind |-> "file", data |-> d, src |-> NoPath, q |-> 0, kw |-> EmptyMap]
\* the JPEG that img.save writes for source src with the arguments kw
JpegNode(s, kw) ==
    [kind |-> "file", data |-> "jpeg", src |-> s, q |-> kw["quality"].n, kw |-> kw]

exists(f, p) == p \in DOMAIN f
is_dir(f, p) == p \in DOMAIN f /\ f[p].kind = "dir"
is_file(f, p) == p \in DOMAIN f /\ f[p].kind = "file"

Prefixes(p) == {SubSeq(p, 1, n) : n \in 1..Len(p)}

\* Path.mkdir(parents=True, exist_ok=True) raises when a component of the
\* path exists and is not a directory; otherwise it creates what is missing.
MkdirPossible(f, p) == \A d \in Prefixes(p) : exists(f, d) => is_dir(f, d)

Mkdir(f, p) ==
    [x \in DOMAIN f \cup Prefixes(p) |-> IF x \in DOMAIN f THEN f[x] ELSE DirNode]

WriteFile(f, p, node) ==
    [x \in DOMAIN f \cup {p} |-> IF x = p THEN node ELSE f[x]]

\* ---------------------------------------------------- the modelled world
nIn      == <<"i","n">>
nSub     == <<"s",".","h","e","i","c">>   \* a directory with a matching suffix
nOut     == <<"o","u","t">>
nMissing == <<"n","o">>
nLower   == <<"a",".","h","e","i","c">>
nUpper   == <<"a",".","H","E","I","F">>
nMixed   == <<"a",".","H","e","i","c">>
nJpg     == <<"a",".","j","p","g">>

InRoot  == <<nIn>>
SubDir  == <<nIn, nSub>>
OutRoot == <<nOut>>
Missing == <<nMissing>>

\* files that may be present initially, and the contents they may have:
\* "img" decodes, "bad" makes Image.open raise, "old" is an earlier output
CandidateFiles ==
    {<<nIn, nLower>>, <<nIn, nUpper>>, <<nIn, nMixed>>, <<nIn, nJpg>>,
     <<nIn, nSub, nLower>>}

ContentsOf(p) ==
    IF NameOf(p) = nJpg THEN {"old"}
    ELSE IF NameOf(p) = nLower THEN {"img", "bad"}
    ELSE {"img"}

\* the sources a library caller passes to convert_single_file: a file that
\* is there, or one that is not
MissingSource == <<nIn, <<"g",".","h","e","i","c">>>>
SingleSources(f) == {p \in CandidateFiles : exists(f, p)} \cup {MissingSource}

InitialFilesystems ==
    { [x \in {InRoot, SubDir} \cup S |->
          IF x \in S THEN FileNode(c[x]) ELSE DirNode] :
      <<S, c>> \in { <<S, c>> \in
           (SUBSET CandidateFiles) \X [CandidateFiles -> {"img", "bad", "old"}] :
              /\ Cardinality(S) <= MaxFiles
              /\ \A x \in CandidateFiles :
                    c[x] \in ContentsOf(x) /\ (x \notin S => c[x] = CHOOSE d \in ContentsOf(x) : TRUE) } }

\* --------------------------------------------------------------- discovery
heic_extensions ==
    { <<".","h","e","i","c">>, <<".","h","e","i","f">>,
      <<".","H","E","I","C">>, <<".","H","E","I","F">> }

\* the paths find_heic_files appends: rglob('*') entries that are regular
\* files and whose suffix is in heic_extensions
HeicMatches(f, folder) ==
    { p \in DOMAIN f :
         /\ IsUnder(p, folder)
         /\ is_file(f, p)
         /\ suffix(NameOf(p)) \in heic_extensions }

\* rglob yields entries in filesystem-traversal order, which the platform
\* chooses: every ordering of the matches is possible
Orderings(S) ==
    { s \in [1..Cardinality(S) -> S] : \A i, j \in 1..Cardinality(S) : s[i] = s[j] => i = j }

\* find_heic_files: a traversal error ends the walk and the list collected so
\* far (the first k matches of the traversal) is returned
find_heic_files(order, k) == SubSeq(order, 1, k)

\* --------------------------------------------------- single-file conversion
\* environment faults of one per-file step
Faults == {"none", "mkdir", "convert", "save", "verify", "unexpected"}

\* variant: the output keeps the name of the source
OutputPathFor_KeepName(source_path, output_folder) ==
    IF output_folder # NoPath
    THEN Append(output_folder, NameOf(source_path))
    ELSE source_path

\* output path of a conversion
OutputPathFor(source_path, output_folder) ==
    IF output_folder # NoPath
    THEN Append(output_folder, stem(NameOf(source_path)) \o <<".","j","p","g">>)
    ELSE Append(Parent(source_path), stem(NameOf(source_path)) \o <<".","j","p","g">>)

\* variant: no skip test
OutputExists_Never(f, p) == FALSE

\* the skip test: the output already exists
OutputExists(f, p) == exists(f, p)

\* Image.open succeeds on a regular file holding a decodable image
CanDecode(f, source_path) == is_file(f, source_path) /\ f[source_path].data # "bad"

\* the image Image.open returns for a file content: its info mapping, the
\* view getexif() gives (or that it raises) and the view _getexif() gives
PlainImage ==
    [info |-> EmptyMap, exif_view |-> {}, getexif_raises |-> FALSE, legacy |-> {}]

ImageOf(data) ==
    CASE data = "raw" ->
           [PlainImage EXCEPT
              !.info = [k \in {"exif", "icc_profile", "xmp", "primary"} |->
                          CASE k = "exif" -> BytesV(7, "raw")
                            [] k = "icc_profile" -> BytesV(3, "icc")
                            [] k = "xmp" -> BytesV(2, "xmp")
                            [] OTHER -> BoolV(TRUE)],
              !.exif_view = {IntKey(33434)}]
      [] data = "rawbig" ->
           [PlainImage EXCEPT !.info = [k \in {"exif"} |-> BytesV(70000, "raw")]]
      [] data = "rawempty" ->
           [PlainImage EXCEPT !.info = [k \in {"exif"} |-> BytesV(0, "raw")],
                              !.exif_view = {IntKey(36867)}]
      [] data = "dict" ->
           [PlainImage EXCEPT !.exif_view = {IntKey(33434), IntKey(70000), NonIntKey},
                              !.legacy = {IntKey(36867)}]
      [] data = "dictunk" ->
           [PlainImage EXCEPT !.exif_view = {IntKey(5)}, !.legacy = {IntKey(33434)}]
      [] data = "legacy" ->
           [PlainImage EXCEPT !.getexif_raises = TRUE,
                              !.legacy = {IntKey(33434), IntKey(70000)}]
      [] data = "quality" ->
           [PlainImage EXCEPT
              !.info = [k \in {"quality", "thumbnails"} |->
                          IF k = "quality" THEN IntV(10) ELSE TupleV(0)]]
      [] OTHER -> PlainImage

\* the file contents that carry metadata
MetaProfiles == {"raw", "rawbig", "rawempty", "dict", "dictunk", "legacy", "quality"}

\* preserve_metadata: the keys of the dictionary it returns and their values;
\* a probe that raises adds no key
preserve_metadata(img) ==
    [keys |-> (IF DOMAIN img.info # {} THEN {"info"} ELSE {})
              \cup (IF "exif" \in DOMAIN img.info THEN {"exif_raw"} ELSE {})
              \cup (IF "xmp" \in DOMAIN img.info THEN {"xmp"} ELSE {})
              \cup (IF "icc_profile" \in DOMAIN img.info THEN {"icc_profile"} ELSE {})
              \cup (IF ~img.getexif_raises /\ img.exif_view # {} THEN {"exif_dict"} ELSE {})
              \cup (IF img.legacy # {} THEN {"legacy_exif"} ELSE {}),
     info |-> img.info,
     exif_dict |-> img.exif_view,
     legacy_exif |-> img.legacy]

\* the three tries for exif_data, in order: raw bytes, the structured view
\* filtered and dumped, the legacy view dumped; a try that raises leaves
\* exif_data as it was
ExifData(metadata) ==
    LET first  == IF "exif_raw" \in metadata.keys THEN metadata.info["exif"] ELSE NoValue
        exif_ifd == {k \in metadata.exif_dict : ValidExifTag(k)}
        second == IF ~Truthy(first) /\ "exif_dict" \in metadata.keys
                     /\ exif_ifd # {} /\ ~DumpRaises(exif_ifd)
                  THEN DumpPayload(exif_ifd, "exif_dict")
                  ELSE first
        third  == IF ~Truthy(second) /\ "legacy_exif" \in metadata.keys
                     /\ ~DumpRaises(metadata.legacy_exif)
                  THEN DumpPayload(metadata.legacy_exif, "legacy_exif")
                  ELSE second
    IN  third

\* save_kwargs as passed to img.save: the three base arguments, then exif,
\* then icc_profile, then every other scalar entry of info under its own key
SaveKwargs(metadata, qual) ==
    LET exif_data == ExifData(metadata)
        others == IF "info" \in metadata.keys
                  THEN {k \in DOMAIN metadata.info :
                           k \notin {"exif", "icc_profile", "xmp"} /\ IsScalar(metadata.info[k])}
                  ELSE {}
        named  == {"format", "quality", "optimize"}
                  \cup (IF Truthy(exif_data) THEN {"exif"} ELSE {})
                  \cup (IF "icc_profile" \in metadata.keys THEN {"icc_profile"} ELSE {})
    IN  [k \in named \cup others |->
           IF k \in others THEN metadata.info[k]
           ELSE CASE k = "format" -> StrV("JPEG")
                  [] k = "quality" -> IntV(qual)
                  [] k = "optimize" -> BoolV(TRUE)
                  [] k = "exif" -> exif_data
                  [] OTHER -> metadata.info["icc_profile"]]

\* the JPEG encoder raises on an EXIF block that does not fit one marker
EncoderRejects(kw) == "exif" \in DOMAIN kw /\ kw["exif"].n > 65533

\* verify_metadata_preservation, run in verbose mode after the write: its
\* own try/except swallows a failure of the comparison
VerifyOutcome(verb, fault) ==
    IF verb /\ fault = "verify" THEN "swallowed" ELSE "done"

\* variant: the output folder is created before the try block
CaughtByTry_NotMkdir(step) == step \in {"open", "convert", "metadata", "save"}

\* the steps whose exception the try/except of convert_single_file catches
CaughtByTry(step) == step \in {"mkdir", "open", "convert", "metadata", "save"}

\* convert_single_file: the filesystem it leaves, the value it returns and
\* what it did on the way; why names the step that failed.  The fault "mkdir"
\* is a directory that cannot be created (with exist_ok=True an existing
\* directory never raises), "convert" is img.convert raising, "save" is
\* img.save raising on the file, which leaves no file behind (Image.save
\* removes a file it created when the encoder raises), "verify" is the
\* verbose verification failing, which verify_metadata_preservation swallows.
convert_single_file(f, source_path, output_folder, qual, verb, fault) ==
    LET out    == OutputPathFor(source_path, output_folder)
        mkFail == output_folder # NoPath
                  /\ \/ ~MkdirPossible(f, output_folder)
                     \/ fault = "mkdir" /\ ~is_dir(f, output_folder)
        f1     == IF output_folder # NoPath /\ ~mkFail THEN Mkdir(f, output_folder) ELSE f
        kw     == SaveKwargs(preserve_metadata(ImageOf(f1[source_path].data)), qual)
        base   == [fs |-> f1, ret |-> FALSE, out |-> out, existed |-> FALSE,
                   decoded |-> FALSE, encoded |-> FALSE, why |-> "", raised |-> FALSE]
        Fail(r, step) == [r EXCEPT !.why = step, !.raised = ~CaughtByTry(step)]
    IN  IF mkFail THEN Fail([base EXCEPT !.fs = f], "mkdir")
        ELSE IF OutputExists(f1, out) THEN [base EXCEPT !.ret = TRUE, !.existed = TRUE]
        ELSE IF ~CanDecode(f1, source_path) THEN Fail(base, "open")
        ELSE IF fault = "convert" THEN Fail([base EXCEPT !.decoded = TRUE], "convert")
        ELSE IF EncoderRejects(kw) THEN Fail([base EXCEPT !.decoded = TRUE], "metadata")
        ELSE IF fault = "save" THEN Fail([base EXCEPT !.decoded = TRUE], "save")
        ELSE [base EXCEPT !.fs = WriteFile(f1, out, JpegNode(source_path, kw)),
                          !.ret = VerifyOutcome(verb, fault) \in {"done", "swallowed"},
                          !.decoded = TRUE, !.encoded = TRUE]

\* the runs in which a fault can occur: the step it names is reached and can
\* fail ("mkdir" has a folder to create, "convert" and "save" follow a decode
\* that succeeded, "verify" needs verbose)
FaultOccurs(f, source_path, output_folder, verb, fault) ==
    \/ fault = "none"
    \/ /\ fault = "mkdir"
       /\ output_folder # NoPath
       /\ MkdirPossible(f, output_folder)
       /\ ~is_dir(f, output_folder)
    \/ /\ fault \in {"convert", "save", "verify"}
       /\ output_folder # NoPath => MkdirPossible(f, output_folder)
       /\ ~exists(f, OutputPathFor(source_path, output_folder))
       /\ CanDecode(f, source_path)
       /\ fault = "verify" => verb

\* what one run of convert_single_file did, kept for the properties
LastRecord(r, source_path, output_folder, qual, outcome) ==
    [source |-> source_path, folder |-> output_folder, out |-> r.out,
     outcome |-> outcome, existed |-> r.existed, decoded |-> r.decoded,
     encoded |-> r.encoded, quality |-> qual, why |-> r.why]

NoLast == [source |-> NoPath, folder |-> NoPath, out |-> NoPath,
           outcome |-> "none", existed |-> FALSE, decoded |-> FALSE,
           encoded |-> FALSE, quality |-> 0, why |-> ""]

\* ------------------------------------------------------------ convert_folder
\* error messages, as sequences of words
MsgNotExist == <<"Input", "folder", "does", "not", "exist", ":">>
MsgNotDir   == <<"Input", "path", "is", "not", "a", "directory", ":">>
\* the ZeroDivisionError of the success rate of a run with total = 0
MsgZeroDiv  == <<"division", "by", "zero">>
\* an exception that left convert_single_file
MsgEscaped  == <<"conversion", "raised">>
NoMsg       == <<>>

\* variant: only the existence check
ValidateInput_NoDirCheck(f, input_folder) ==
    IF ~exists(f, input_folder) THEN MsgNotExist ELSE NoMsg

\* the two input checks of convert_folder: the message of the ValueError
\* raised, NoMsg when the input is accepted
ValidateInput(f, input_folder) ==
    IF ~exists(f, input_folder) THEN MsgNotExist
    ELSE IF ~is_dir(f, input_folder) THEN MsgNotDir
    ELSE NoMsg

NoStats    == [total |-> 0, converted |-> 0, failed |-> 0, skipped |-> 0]
\* the record returned when no file was found
EmptyStats == [total |-> 0, converted |-> 0, failed |-> 0, skipped |-> 0]
\* variant: no early return
NothingFound_Never(files) == FALSE

\* the test of the early return: discovery found nothing
NothingFound(files) == files = <<>>

StartStats(n) == [total |-> n, converted |-> 0, failed |-> 0, skipped |-> 0]

\* variant: an exception in the per-file step is not counted
CountOutcome_DropRaise(s, outcome) ==
    IF outcome = "true" THEN [s EXCEPT !.converted = @ + 1]
    ELSE IF outcome = "false" THEN [s EXCEPT !.failed = @ + 1]
    ELSE s

\* variant: only an exception counts as a failure
CountOutcome_FalseConverted(s, outcome) ==
    IF outcome = "raise" THEN [s EXCEPT !.failed = @ + 1]
    ELSE [s EXCEPT !.converted = @ + 1]

\* the tally of one per-file outcome: "true", "false" or "raise"
CountOutcome(s, outcome) ==
    IF outcome = "true" THEN [s EXCEPT !.converted = @ + 1]
    ELSE [s EXCEPT !.failed = @ + 1]

NoResult          == [kind |-> "none",  ok |-> FALSE, stats |-> NoStats, msg |-> NoMsg]
BoolResult(b)     == [kind |-> "bool",  ok |-> b,     stats |-> NoStats, msg |-> NoMsg]
StatsResult(s)    == [kind |-> "stats", ok |-> TRUE,  stats |-> s,       msg |-> NoMsg]
RaisedResult(m)   == [kind |-> "raise", ok |-> FALSE, stats |-> NoStats, msg |-> m]

\* ------------------------------------------------------------------- main
\* the (--quality, --verbose) pairs given on the command line
CommandLineConfigs == {<<0, FALSE>>, <<1, TRUE>>, <<100, FALSE>>, <<101, TRUE>>}
\* the (quality, verbose) pairs a library caller constructs a converter with
LibraryConfigs == {<<0, FALSE>>, <<95, TRUE>>}
InputArgs  == {InRoot, SubDir, Missing, <<nIn, nLower>>}
OutputArgs == {NoPath, OutRoot, SubDir}

\* the CLI's range check on --quality
QualityAccepted(qual) == 1 <= qual /\ qual <= 100

ExitQuality == 1
ExitError   == 3
NotExited   == -1

\* the exit code main picks from the returned stats
ExitCodeFor(s) ==
    IF s.failed = 0 THEN 0
    ELSE IF s.converted > 0 THEN 1
    ELSE 2

NoArgs == [input |-> NoPath, output |-> NoPath, quality |-> 0, verbose |-> FALSE]

\* variant: a bare except, which catches SystemExit too
CaughtByExceptException_All(excType) == TRUE

\* `except Exception` catches every exception but the BaseException-only
\* ones; sys.exit raises SystemExit
CaughtByExceptException(excType) ==
    excType \notin {"SystemExit", "KeyboardInterrupt", "GeneratorExit"}

\* where control goes when convert_folder returns or raises
AfterFolder == IF entry = "cli" THEN "returned" ELSE "ready"

\* the locals of convert_folder before a call
ClearFolderLocals ==
    /\ input_path' = NoPath
    /\ output_path' = NoPath
    /\ heic_files' = <<>>
    /\ scanError' = FALSE
    /\ idx' = 0
    /\ stats' = NoStats
    /\ outcomes' = <<>>
    /\ summaryLogged' = FALSE

\* --------------------------------------------------------------- behaviour
Init ==
    /\ fs \in InitialFilesystems
    /\ fs0 = fs
    /\ entry = "none"
    /\ pc = "start"
    /\ constructed = FALSE
    /\ quality = 0
    /\ verbose = FALSE
    /\ args = NoArgs
    /\ input_path = NoPath
    /\ output_path = NoPath
    /\ heic_files = <<>>
    /\ scanError = FALSE
    /\ idx = 0
    /\ stats = NoStats
    /\ outcomes = <<>>
    /\ result = NoResult
    /\ exitCode = NotExited
    /\ last = NoLast
    /\ calls = 0
    /\ summaryLogged = FALSE

\* main, up to the construction of the converter: parse the arguments,
\* reject a quality out of range with exit code 1, else build the converter
MainStart(inp, out, qual, v) ==
    /\ pc = "start"
    /\ entry' = "cli"
    /\ args' = [input |-> inp, output |-> out, quality |-> qual, verbose |-> v]
    /\ IF ~QualityAccepted(qual)
       THEN /\ pc' = "exited"
            /\ exitCode' = ExitQuality
            /\ UNCHANGED <<constructed, quality, verbose>>
       ELSE /\ pc' = "ready"
            /\ constructed' = TRUE
            /\ quality' = qual
            /\ verbose' = v
            /\ UNCHANGED exitCode
    /\ UNCHANGED <<fs, fs0, input_path, output_path, heic_files, scanError, idx,
                   stats, outcomes, result, last, calls, summaryLogged>>

\* HEICToJPGConverter(quality, verbose) built by a library caller
Construct(qual, v) ==
    /\ pc = "start"
    /\ Cardinality(DOMAIN fs \cap CandidateFiles) <= MaxLibFiles
    /\ entry' = "lib"
    /\ pc' = "ready"
    /\ constructed' = TRUE
    /\ quality' = qual
    /\ verbose' = v
    /\ UNCHANGED <<fs, fs0, args, input_path, output_path, heic_files, scanError,
                   idx, stats, outcomes, result, exitCode, last, calls, summaryLogged>>

\* convert_single_file called by a library caller
ConvertSingleFile(source_path, output_folder, fault) ==
    /\ pc = "ready"
    /\ entry = "lib"
    /\ calls < MaxCalls
    /\ FaultOccurs(fs, source_path, output_folder, verbose, fault)
    /\ LET r == convert_single_file(fs, source_path, output_folder, quality, verbose, fault)
       IN /\ fs' = r.fs
          /\ result' = IF r.raised THEN RaisedResult(MsgEscaped) ELSE BoolResult(r.ret)
          /\ last' = LastRecord(r, source_path, output_folder, quality,
                                IF r.raised THEN "raise"
                                ELSE IF r.ret THEN "true" ELSE "false")
    /\ calls' = calls + 1
    /\ ClearFolderLocals
    /\ UNCHANGED <<fs0, entry, pc, constructed, quality, verbose, args, exitCode>>

\* convert_folder up to the loop: the input checks, discovery, the early
\* return when nothing was found
ConvertFolderBegin(inp, out, order, k) ==
    /\ pc = "ready"
    /\ IF entry = "cli"
       THEN calls = 0 /\ inp = args.input /\ out = args.output
       ELSE calls < MaxCalls
    /\ calls' = calls + 1
    /\ input_path' = inp
    /\ output_path' = out
    /\ idx' = 0
    /\ outcomes' = <<>>
    /\ summaryLogged' = FALSE
    /\ IF ValidateInput(fs, inp) # NoMsg
       THEN /\ result' = RaisedResult(ValidateInput(fs, inp))
            /\ pc' = AfterFolder
            /\ order = <<>> /\ k = 0
            /\ heic_files' = <<>>
            /\ scanError' = FALSE
            /\ stats' = NoStats
       ELSE /\ order \in Orderings(HeicMatches(fs, inp))
            /\ k \in 0..Len(order)
            /\ heic_files' = find_heic_files(order, k)
            /\ scanError' = (k < Len(order))
            /\ IF NothingFound(find_heic_files(order, k))
               THEN /\ result' = StatsResult(EmptyStats)
                    /\ pc' = AfterFolder
                    /\ stats' = NoStats
               ELSE /\ stats' = StartStats(Len(find_heic_files(order, k)))
                    /\ pc' = "loop"
                    /\ result' = NoResult
    /\ UNCHANGED <<fs, fs0, entry, constructed, quality, verbose, args, exitCode, last>>

\* variant: every output goes straight into the output root
FileOutputFolder_Flat(heic_file) == output_path

\* the per-file output folder: the input structure mirrored under the output root
FileOutputFolder(heic_file) ==
    IF output_path # NoPath
    THEN output_path \o Parent(relative_to(heic_file, input_path))
    ELSE NoPath

\* one iteration of the loop of convert_folder, on heic_files[idx + 1]
ConvertFolderStep(fault) ==
    /\ pc = "loop"
    /\ idx < Len(heic_files)
    /\ \/ fault = "unexpected"
       \/ FaultOccurs(fs, heic_files[idx + 1], FileOutputFolder(heic_files[idx + 1]),
                      verbose, fault)
    /\ LET heic_file == heic_files[idx + 1]
           folder == FileOutputFolder(heic_file)
           r == convert_single_file(fs, heic_file, folder, quality, verbose, fault)
           outcome == IF fault = "unexpected" \/ r.raised THEN "raise"
                      ELSE IF r.ret THEN "true" ELSE "false"
       IN /\ fs' = IF fault = "unexpected" THEN fs ELSE r.fs
          /\ stats' = CountOutcome(stats, outcome)
          /\ outcomes' = Append(outcomes, outcome)
          /\ last' = IF fault = "unexpected" THEN last
                     ELSE LastRecord(r, heic_file, folder, quality, outcome)
    /\ idx' = idx + 1
    /\ UNCHANGED <<fs0, entry, pc, constructed, quality, verbose, args, input_path,
                   output_path, heic_files, scanError, result, exitCode, calls,
                   summaryLogged>>

\* variant: the summary is not logged
LogsSummary_Never(s) == FALSE

\* the summary is logged once its text, with the success rate, is built
LogsSummary(s) == s.total # 0

\* the end of convert_folder: the summary, whose success rate divides by
\* stats.total, is logged and the stats are returned
ConvertFolderEnd ==
    /\ pc = "loop"
    /\ idx = Len(heic_files)
    /\ result' = IF stats.total = 0 THEN RaisedResult(MsgZeroDiv) ELSE StatsResult(stats)
    /\ summaryLogged' = LogsSummary(stats)
    /\ pc' = AfterFolder
    /\ UNCHANGED <<fs, fs0, entry, constructed, quality, verbose, args, input_path,
                   output_path, heic_files, scanError, idx, stats, outcomes,
                   exitCode, last, calls>>

\* the end of main: exit 0/1/2 from the stats, 3 when convert_folder raised
MainExit ==
    /\ pc = "returned"
    /\ entry = "cli"
    /\ exitCode' = IF result.kind = "raise" THEN ExitError
                   ELSE IF CaughtByExceptException("SystemExit") THEN ExitError
                   ELSE ExitCodeFor(result.stats)
    /\ pc' = "exited"
    /\ UNCHANGED <<fs, fs0, entry, constructed, quality, verbose, args, input_path,
                   output_path, heic_files, scanError, idx, stats, outcomes,
                   result, last, calls, summaryLogged>>

Next ==
    \/ \E inp \in InputArgs, out \in OutputArgs, c \in CommandLineConfigs :
          MainStart(inp, out, c[1], c[2])
    \/ \E c \in LibraryConfigs : Construct(c[1], c[2])
    \/ \E s \in SingleSources(fs), o \in OutputArgs, fault \in Faults \ {"unexpected"} :
          ConvertSingleFile(s, o, fault)
    \/ \E inp \in InputArgs, out \in OutputArgs :
          \E order \in {<<>>} \cup Orderings(HeicMatches(fs, inp)) :
             \E k \in 0..Len(order) : ConvertFolderBegin(inp, out, order, k)
    \/ \E fault \in Faults : ConvertFolderStep(fault)
    \/ ConvertFolderEnd
    \/ MainExit

Spec == Init /\ [][Next]_vars

\* the same program on one source file that carries metadata
MetaFilesystems ==
    { [x \in {InRoot, SubDir, <<nIn, nLower>>} |->
          IF x = <<nIn, nLower>> THEN FileNode(d) ELSE DirNode] : d \in MetaProfiles }

InitMeta ==
    /\ fs \in MetaFilesystems
    /\ fs0 = fs
    /\ entry = "none"
    /\ pc = "start"
    /\ constructed = FALSE
    /\ quality = 0
    /\ verbose = FALSE
    /\ args = NoArgs
    /\ input_path = NoPath
    /\ output_path = NoPath
    /\ heic_files = <<>>
    /\ scanError = FALSE
    /\ idx = 0
    /\ stats = NoStats
    /\ outcomes = <<>>
    /\ result = NoResult
    /\ exitCode = NotExited
    /\ last = NoLast
    /\ calls = 0
    /\ summaryLogged = FALSE

SpecMeta == InitMeta /\ [][Next]_vars

\* =============================================================== properties
\* w occurs in msg as a run of consecutive words
Contains(msg, w) ==
    \E i \in 1..Len(msg) : i + Len(w) - 1 <= Len(msg) /\ SubSeq(msg, i, i + Len(w) - 1) = w

Range(seq) == {seq[i] : i \in 1..Len(seq)}
CountOf(seq, S) == Cardinality({i \in 1..Len(seq) : seq[i] \in S})

\* the step is a call of convert_folder / of convert_single_file by a library
\* caller / one loop iteration in which convert_single_file ran
FolderCallStep == pc = "ready" /\ calls' = calls + 1 /\ input_path' # NoPath
SingleCallStep == pc = "ready" /\ calls' = calls + 1 /\ input_path' = NoPath
LoopStep       == pc = "loop" /\ idx' = idx + 1
ConversionStep == SingleCallStep \/ (LoopStep /\ outcomes'[idx'] # "raise")

\* convert_folder has returned a stats record
FolderReturned == pc \in {"ready", "returned", "exited"} /\ result.kind = "stats"

\* ---- C1
\* C1: whenever convert_folder has returned a stats record, converted + failed
\* = total and total is the number of discovered files; during the loop
\* converted + failed is the number of files already processed.
C1_StatsAddUp ==
    /\ pc = "loop" =>
          /\ stats.converted + stats.failed = idx
          /\ stats.total = Len(heic_files)
    /\ FolderReturned =>
          /\ result.stats.converted + result.stats.failed = result.stats.total
          /\ result.stats.total = Len(heic_files)

C1_Witness ==
    /\ FolderReturned
    /\ result.stats.total = 2
    /\ "raise" \in Range(outcomes)
    /\ "true" \in Range(outcomes)

\* ---- C2
\* C2: a per-file failure (false, or an exception) adds exactly one to failed
\* and nothing to converted, and the loop goes on: each iteration handles the
\* next file of the discovered list, and convert_folder returns only once
\* every discovered file has been handled.
C2_FailureDoesNotStopLoop ==
    /\ [][ LoopStep =>
             /\ pc' = "loop"
             /\ heic_files' = heic_files
             /\ Len(outcomes') = idx'
             /\ outcomes'[idx'] # "true" =>
                   /\ stats'.failed = stats.failed + 1
                   /\ stats'.converted = stats.converted
             /\ outcomes'[idx'] # "raise" => last'.source = heic_files[idx'] ]_vars
    /\ [](pc = "loop" => idx <= Len(heic_files))
    /\ [](FolderReturned => Len(outcomes) = Len(heic_files))

C2_Witness ==
    /\ FolderReturned
    /\ Len(outcomes) = 2
    /\ outcomes[1] = "false"
    /\ outcomes[2] = "true"

\* ---- C3
\* C3: convert_folder on a path that does not exist raises an error whose
\* message contains "does not exist", on a path that is not a directory one
\* whose message contains "not a directory"; discovery does not run, nothing
\* is converted or written and no stats record is returned.
C3_InvalidInputRaises ==
    [][ (FolderCallStep /\ ~(input_path' \in DOMAIN fs /\ fs[input_path'].kind = "dir")) =>
          /\ result'.kind = "raise"
          /\ IF input_path' \notin DOMAIN fs
             THEN Contains(result'.msg, <<"does", "not", "exist">>)
             ELSE Contains(result'.msg, <<"not", "a", "directory">>)
          /\ heic_files' = <<>>
          /\ pc' # "loop"
          /\ fs' = fs
          /\ last' = last ]_vars

C3_Witness ==
    /\ result.kind = "raise"
    /\ input_path \in DOMAIN fs
    /\ fs[input_path].kind = "file"
    /\ Contains(result.msg, <<"not", "a", "directory">>)

\* ---- C4
\* C4: convert_folder on an existing directory in which discovery finds no
\* file returns total = 0, converted = 0, failed = 0 without raising, and
\* converts and writes nothing.
C4_EmptyFolderZeroStats ==
    [][ (FolderCallStep /\ input_path' \in DOMAIN fs /\ fs[input_path'].kind = "dir"
            /\ heic_files' = <<>>) =>
          /\ result'.kind = "stats"
          /\ result'.stats.total = 0
          /\ result'.stats.converted = 0
          /\ result'.stats.failed = 0
          /\ pc' # "loop"
          /\ fs' = fs
          /\ last' = last ]_vars

C4_Witness ==
    /\ FolderReturned
    /\ result.stats.total = 0
    /\ input_path = InRoot
    /\ ~scanError
    /\ <<nIn, nJpg>> \in DOMAIN fs

\* ---- C5
\* the files under folder whose suffix is .heic or .heif in any casing
CaseInsensitiveMatches(f, folder) ==
    { p \in DOMAIN f :
         /\ IsUnder(p, folder)
         /\ f[p].kind = "file"
         /\ Lower(suffix(NameOf(p))) \in {<<".","h","e","i","c">>, <<".","h","e","i","f">>} }

\* C5: discovery that ran without a traversal error returned exactly the
\* regular files under the root whose suffix is .heic or .heif in any casing
\* of the letters, each once.
C5_DiscoveryCaseInsensitive ==
    (input_path # NoPath /\ input_path \in DOMAIN fs /\ fs[input_path].kind = "dir"
        /\ ~scanError) =>
       /\ Range(heic_files) = CaseInsensitiveMatches(fs, input_path)
       /\ \A i, j \in 1..Len(heic_files) : heic_files[i] = heic_files[j] => i = j

\* ---- C6
\* C6: when the output path exists at call time, convert_single_file returns
\* true without decoding, encoding or writing, and the filesystem is left as
\* it was; and a call that repeats the source/output pair of a successful
\* call finds the output and does not encode again.
C6_SkipExistingOutput ==
    [][ ConversionStep =>
          /\ last'.out \in DOMAIN fs =>
                /\ last'.outcome = "true"
                /\ last'.existed
                /\ ~last'.decoded
                /\ ~last'.encoded
                /\ fs' = fs
          /\ (last.outcome = "true" /\ last'.source = last.source
                 /\ last'.folder = last.folder) =>
                /\ last'.outcome = "true"
                /\ ~last'.encoded
                /\ fs' = fs ]_vars

C6_Witness ==
    /\ entry = "lib"
    /\ calls = 2
    /\ input_path = NoPath
    /\ last.existed
    /\ last.outcome = "true"
    /\ last.out \notin DOMAIN fs0
    /\ fs[last.out].src = last.source

\* ---- C7
\* C7: once the CLI has run convert_folder and exited, the exit code is 3 when
\* convert_folder raised, 0 when no file failed (also when none was found),
\* 1 when some file failed and some was converted, 2 when some file was
\* attempted and every attempted file failed.
C7_ExitCodeOfOutcome ==
    (pc = "exited" /\ constructed) =>
       LET nfailed    == CountOf(outcomes, {"false", "raise"})
           nconverted == CountOf(outcomes, {"true"})
       IN  /\ result.kind \in {"raise", "stats"}
           /\ result.kind = "raise" => exitCode = 3
           /\ result.kind = "stats" =>
                 /\ nfailed = 0 => exitCode = 0
                 /\ (nfailed > 0 /\ nconverted > 0) => exitCode = 1
                 /\ (nfailed > 0 /\ nconverted = 0) => exitCode = 2

C7_Witness ==
    /\ pc = "exited"
    /\ result.kind = "stats"
    /\ exitCode = 1
    /\ Len(outcomes) = 2

\* ---- C8
\* the stats records a run of convert_folder can return
ReturnableStats ==
    { [total |-> c + f, converted |-> c, failed |-> f, skipped |-> 0] :
         c \in 0..(MaxFiles + 1), f \in 0..(MaxFiles + 1) }

\* C8: a CLI run given a quality outside [1,100] ends before a converter is
\* constructed and before any discovery or conversion, with a non-zero exit
\* code that no other outcome uses.
C8_QualityExitCodeDistinct ==
    (pc = "exited" /\ (args.quality < 1 \/ args.quality > 100)) =>
       /\ ~constructed
       /\ calls = 0
       /\ fs = fs0
       /\ exitCode # 0
       /\ exitCode # ExitError
       /\ \A s \in ReturnableStats : exitCode # ExitCodeFor(s)

\* ---- C9
\* C9: no converter holding a quality outside [1,100] reaches discovery or
\* conversion, and no file is encoded with such a quality.
C9_QualityValidatedEverywhere ==
    /\ calls > 0 => (1 <= quality /\ quality <= 100)
    /\ \A p \in DOMAIN fs :
          fs[p].data = "jpeg" => (1 <= fs[p].q /\ fs[p].q <= 100)

\* ---- C10
\* C10: after any sequence of calls every file that was there before, each
\* .heic/.heif source among them, is still there with its content; nothing
\* is deleted; and everything new is a directory or a file named
\* <stem of its source>.jpg.
C10_SourcesUntouched ==
    /\ DOMAIN fs0 \subseteq DOMAIN fs
    /\ \A p \in DOMAIN fs0 :
          Lower(suffix(NameOf(p))) \in {<<".","h","e","i","c">>, <<".","h","e","i","f">>}
             => fs[p] = fs0[p]
    /\ \A p \in DOMAIN fs \ DOMAIN fs0 :
          \/ fs[p].kind = "dir"
          \/ /\ fs[p].kind = "file"
             /\ fs[p].src # NoPath
             /\ NameOf(p) = stem(NameOf(fs[p].src)) \o <<".","j","p","g">>

C10_Witness ==
    /\ calls = 2
    /\ input_path = InRoot
    /\ output_path = SubDir
    /\ last.encoded
    /\ last.source = <<nIn, nSub, nLower>>
    /\ \E p \in DOMAIN fs \ DOMAIN fs0 : fs[p].kind = "file" /\ Parent(p) = OutRoot

\* ---- C11
\* C11: convert_single_file never raises to its caller: a library call ends
\* with a boolean; a run in which a step failed gives false; and the value is
\* true exactly when the output already existed or the encode-and-write
\* completed.
C11_NeverPropagates ==
    [][ /\ SingleCallStep => result'.kind = "bool"
        /\ ConversionStep =>
             /\ last'.outcome \in {"true", "false"}
             /\ last'.why # "" => last'.outcome = "false"
             /\ last'.outcome = "true" <=> (last'.existed \/ last'.encoded) ]_vars

C11_Witness ==
    /\ entry = "lib"
    /\ result.kind = "bool"
    /\ ~result.ok
    /\ last.why = "mkdir"
    /\ last.folder = OutRoot

\* ---- C12
\* C12: the output path of every conversion is (output folder, or the
\* source's own folder) / (source stem + ".jpg"); in convert_folder with an
\* output root the per-file output folder is the output root joined with the
\* source's directory relative to the input root, without one the output is
\* beside the source; with an output root two sources in different input
\* subdirectories never get the same output path.
C12_OutputPathMirrorsInput ==
    /\ [][ ConversionStep =>
             /\ last'.out =
                   (IF last'.folder # NoPath THEN last'.folder
                    ELSE SubSeq(last'.source, 1, Len(last'.source) - 1))
                   \o << stem(last'.source[Len(last'.source)]) \o <<".","j","p","g">> >>
             /\ last'.encoded => (last'.out \notin DOMAIN fs /\ last'.out \in DOMAIN fs')
             /\ (LoopStep /\ output_path # NoPath) =>
                   last'.folder \o << last'.source[Len(last'.source)] >>
                      = output_path \o SubSeq(last'.source, Len(input_path) + 1,
                                              Len(last'.source))
             /\ (LoopStep /\ output_path = NoPath) =>
                   /\ last'.folder = NoPath
                   /\ SubSeq(last'.out, 1, Len(last'.out) - 1)
                         = SubSeq(last'.source, 1, Len(last'.source) - 1) ]_vars
    /\ [](( pc = "loop" /\ output_path # NoPath) =>
             \A i, j \in 1..Len(heic_files) :
                Parent(heic_files[i]) # Parent(heic_files[j]) =>
                   OutputPathFor(heic_files[i], FileOutputFolder(heic_files[i]))
                      # OutputPathFor(heic_files[j], FileOutputFolder(heic_files[j])))

C12_Witness ==
    /\ pc = "loop"
    /\ output_path = OutRoot
    /\ Len(heic_files) = 2
    /\ Parent(heic_files[1]) # Parent(heic_files[2])
    /\ last.encoded
    /\ last.source = <<nIn, nSub, nLower>>
    /\ last.out = <<nOut, nSub, nJpg>>
    /\ last.out \in DOMAIN fs

\* ---- C13
\* C13 as claimed: every convert_folder call that has returned a stats
\* record, whatever the number of discovered files, has logged the summary.
C13_SummaryAlwaysLogged == FolderReturned => summaryLogged

\* C13: a convert_folder call that has returned a stats record after
\* discovering at least one file has logged the summary, and logged it only
\* after the loop; a call that discovered no file returns without a summary.
C13_SummaryLoggedWhenFilesFound ==
    /\ (FolderReturned /\ heic_files # <<>>) => summaryLogged
    /\ (FolderReturned /\ heic_files = <<>>) => ~summaryLogged
    /\ pc = "loop" => ~summaryLogged

C13_Witness ==
    /\ FolderReturned
    /\ Len(heic_files) = 2
    /\ result.stats.total = 2
    /\ summaryLogged

\* ---- C14
\* the image a written JPEG was encoded from (sources are never modified)
SourceImage(p) == ImageOf(fs[fs[p].src].data)
EncodedFiles == {p \in DOMAIN fs : fs[p].data = "jpeg"}
ExifOf(p) == IF "exif" \in DOMAIN fs[p].kw THEN fs[p].kw["exif"] ELSE NoValue

\* the payload the claimed priority order selects: the raw bytes; else the
\* filtered structured view; else the filtered legacy view; else none
ClaimedExif(img) ==
    LET structured == IF img.getexif_raises THEN {}
                      ELSE {k \in img.exif_view : k.isint /\ k.n \in 0..65535}
        legacy     == {k \in img.legacy : k.isint /\ k.n \in 0..65535}
    IN  IF "exif" \in DOMAIN img.info /\ img.info["exif"].n > 0
        THEN img.info["exif"]
        ELSE IF structured # {} /\ ~DumpRaises(structured)
        THEN DumpPayload(structured, "exif_dict")
        ELSE IF legacy # {} /\ ~DumpRaises(legacy)
        THEN DumpPayload(legacy, "legacy_exif")
        ELSE NoValue

\* C14: every written JPEG carries the EXIF payload chosen by strict
\* priority: the raw EXIF bytes when present; otherwise the payload built from
\* the structured view restricted to integer keys in [0, 65536); otherwise the
\* payload built from the legacy view under the same key filter; and no EXIF
\* when none of them produces a payload.
C14_ExifPriority ==
    \A p \in EncodedFiles : ExifOf(p) = ClaimedExif(SourceImage(p))

\* ---- C15
\* C15: a source that is decoded, and whose colour conversion and write do
\* not fail, is converted (the call gives true) whatever its metadata.
C15_MetadataNeverFatal ==
    [][ (ConversionStep /\ last'.decoded /\ last'.why \notin {"convert", "save"})
           => last'.outcome = "true" ]_vars

\* ---- C16
\* C16: every written JPEG was encoded with format JPEG, the converter's
\* configured quality and optimize on, and with the chosen EXIF and ICC
\* payloads, whatever the source's info mapping holds.
C16_EncodeParametersFixed ==
    \A p \in EncodedFiles :
       /\ fs[p].kw["format"] = StrV("JPEG")
       /\ fs[p].kw["quality"] = IntV(quality)
       /\ fs[p].kw["optimize"] = BoolV(TRUE)
       /\ ExifOf(p) = ExifData(preserve_metadata(SourceImage(p)))
       /\ "icc_profile" \in DOMAIN SourceImage(p).info =>
             fs[p].kw["icc_profile"] = SourceImage(p).info["icc_profile"]

\* ---- C17
\* the output paths of the discovered files of the current folder run
RunOutputPaths ==
    {OutputPathFor(heic_files[i], FileOutputFolder(heic_files[i])) : i \in 1..Len(heic_files)}

\* C17: in a first convert_folder run that started with nothing at any of its
\* output paths and in which every file gave true, every discovered file was
\* itself encoded: the number of files written by the run equals
\* stats.converted and stats.total.
C17_EveryFileEncodedOnce ==
    (/\ FolderReturned
     /\ calls = 1
     /\ RunOutputPaths \cap DOMAIN fs0 = {}
     /\ \A i \in 1..Len(outcomes) : outcomes[i] = "true")
    => /\ Cardinality(EncodedFiles \ DOMAIN fs0) = result.stats.converted
       /\ result.stats.converted = result.stats.total
====
